---- MODULE Spec2Model ----
(***************************************************************************)
(* Model of the RTG invoice tracker: the SQLite record store with the      *)
(* upload / replace / merge handlers, the reconciliation diff, the         *)
(* distance cache in front of the routing provider, and the day-route      *)
(* calculator.                                                             *)
(*                                                                         *)
(* JavaScript values are records [k, v]: k is the dynamic type, v an       *)
(* integer.  Strings are integer codes: 0 is the empty string, 1..99 are   *)
(* plain texts (client names), IsoText(t) is the ISO-8601 text of the      *)
(* instant t, RawText(t) is a text that the parser keeps as a string but   *)
(* that `new Date(text)` reads as the instant t (such as "1/15/2024"), and *)
(* BadText(n) is a text that `new Date(text)` cannot read.                 *)
(***************************************************************************)
EXTENDS Integers, Sequences, FiniteSets, TLC

VARIABLES
  db,        \* the SQLite tables uploaded_files, invoice_records, file_columns
  pending,   \* the conflict decisions (diffModal) the clients hold
  last,      \* history: the last request and its response
  steps,     \* history: the number of requests so far
  distanceCache,   \* the in-memory map of the session: <<origin, destination>> -> km
  distance_cache,  \* the rows of the SQLite table distance_cache
  apiKey,          \* whether localStorage holds a routing API key
  addresses,       \* the home address and the client addresses of localStorage
  invoicesWithDistances,  \* the rows the page shows
  obtained,        \* history: per address pair, the provider's latest answer still cached
  lastApiCallTime, \* the module-level time stamp of rateLimitedDelay
  caller,          \* per caller of the routing API: where it stands in its calls
  outbound         \* history: the latest outbound call [at, who, attempt, since, retried]

storeVars == <<db, pending>>
routeVars == <<distanceCache, distance_cache, apiKey, addresses, invoicesWithDistances,
               obtained>>
limiterVars == <<lastApiCallTime, caller, outbound>>
vars == <<db, pending, last, steps, distanceCache, distance_cache, apiKey, addresses,
          invoicesWithDistances, obtained, lastApiCallTime, caller, outbound>>

(* ------------------------------ bounds -------------------------------- *)
MaxFileId == 3
MaxPending == 2
MaxSteps == 5

\* one request to the store; the routing API is not called meanwhile
Tick == steps < MaxSteps /\ steps' = steps + 1 /\ UNCHANGED limiterVars

(* --------------------------- JavaScript values ------------------------ *)
IsoText(t) == 100 + t
RawText(t) == 200 + t
BadText(n) == 300 + n
NumText(n) == 400 + n

Null == [k |-> "null", v |-> 0]
Undef == [k |-> "undef", v |-> 0]
Num(n) == [k |-> "num", v |-> n]
Str(c) == [k |-> "str", v |-> c]
DateV(t) == [k |-> "date", v |-> t]

Get(record, key) == IF key \in DOMAIN record THEN record[key] ELSE Undef

toISOString(t) == IsoText(t)

\* new Date(text).getTime(); -1 stands for NaN (Invalid Date)
JSDateParse(c) ==
  IF c >= IsoText(0) /\ c < RawText(0) THEN c - IsoText(0)
  ELSE IF c >= RawText(0) /\ c < BadText(0) THEN c - RawText(0)
  ELSE -1

\* key.toLowerCase().includes('date')
IsDateKey(key) == key \in {"Lesson Date"}

MapSeq(Op(_), s) == [i \in 1..Len(s) |-> Op(s[i])]

SeqRange(s) == {s[i] : i \in 1..Len(s)}

RECURSIVE SetToSeq(_)
SetToSeq(S) ==
  IF S = {} THEN <<>>
  ELSE LET m == CHOOSE x \in S : \A y \in S : x <= y
       IN <<m>> \o SetToSeq(S \ {m})

(* ----------------------------- record store --------------------------- *)
serializeRecord(record) ==
  [key \in DOMAIN record |->
     IF record[key].k = "date" THEN Str(toISOString(record[key].v))
     ELSE record[key]]

deserializeRecord(record) ==
  [key \in DOMAIN record |->
     IF record[key].k = "str" /\ IsDateKey(key) /\ JSDateParse(record[key].v) >= 0
     THEN DateV(JSDateParse(record[key].v))
     ELSE record[key]]

serializeData(data) ==
  [records |-> MapSeq(serializeRecord, data.records),
   columns |-> data.columns,
   totalAmount |-> data.totalAmount]

EmptyData == [records |-> <<>>, columns |-> <<>>, totalAmount |-> 0]

\* sha256 of the uploaded bytes b, and of the JSON text of a data set; the
\* digest is modelled by what it identifies (no collisions).
computeFileHash(b) == [kind |-> "raw", b |-> b, data |-> EmptyData]
JsonHash(data) == [kind |-> "json", b |-> 0, data |-> serializeData(data)]

EmptyDb ==
  [files |-> {}, records |-> {}, columns |-> {},
   nextFileId |-> 1, nextRecId |-> 1, nextColId |-> 1]

FilesByHash(d, hash) == {f \in d.files : f.content_hash = hash}
FilesByName(d, filename) == {f \in d.files : f.filename = filename}
MinId(S) == CHOOSE f \in S : \A g \in S : f.id <= g.id

\* .get() returns the first row of the index scan: the lowest rowid
getFileByHash(d, hash) == MinId(FilesByHash(d, hash))
getFileByFilename(d, filename) == MinId(FilesByName(d, filename))

RowsOf(d, fileId) == {r \in d.records : r.file_id = fileId}
RowIds(d, fileId) == SetToSeq({r.id : r \in RowsOf(d, fileId)})
RowById(d, id) == CHOOSE r \in d.records : r.id = id

\* getFileRecords setting record.kilometers from the column in every case
getFileRecordsColumnOnly(d, fileId) ==
  LET ids == RowIds(d, fileId)
      Load(id) ==
        LET row == RowById(d, id)
            keys == DOMAIN row.record_data \cup {"_dbId", "kilometers"}
        IN [key \in keys |->
              IF key = "_dbId" THEN Num(row.id)
              ELSE IF key = "kilometers" THEN row.kilometers
              ELSE row.record_data[key]]
  IN MapSeq(Load, ids)

getFileRecords(d, fileId) ==
  LET ids == RowIds(d, fileId)
      Load(id) ==
        LET row == RowById(d, id)
            keys == DOMAIN row.record_data \cup {"_dbId"}
                    \cup (IF row.kilometers # Null THEN {"kilometers"} ELSE {})
        IN [key \in keys |->
              IF key = "_dbId" THEN Num(row.id)
              ELSE IF key = "kilometers" /\ row.kilometers # Null THEN row.kilometers
              ELSE row.record_data[key]]
  IN MapSeq(Load, ids)

ColsOf(d, fileId) == {c \in d.columns : c.file_id = fileId}
getFileColumns(d, fileId) ==
  LET ids == SetToSeq({c.id : c \in ColsOf(d, fileId)})
      Name(id) == (CHOOSE c \in d.columns : c.id = id).column_name
  IN MapSeq(Name, ids)

\* DELETE FROM uploaded_files WHERE id = ?, with ON DELETE CASCADE
deleteFile(d, fileId) ==
  [d EXCEPT !.files = {f \in @ : f.id # fileId},
            !.records = {r \in @ : r.file_id # fileId},
            !.columns = {c \in @ : c.file_id # fileId}]

\* UPDATE invoice_records SET kilometers = ? WHERE id = ?
updateInvoiceKilometers(d, recordId, kilometers) ==
  [d EXCEPT !.records = {IF r.id = recordId THEN [r EXCEPT !.kilometers = Num(kilometers)]
                         ELSE r : r \in @}]

\* the UNIQUE constraint on content_hash makes the INSERT throw
SaveThrows(d, contentHash) == FilesByHash(d, contentHash) # {}

\* a rowid table without AUTOINCREMENT: one more than the largest id in use
NextRecordIdReused(d) ==
  IF d.records = {} THEN 1
  ELSE 1 + (CHOOSE m \in {r.id : r \in d.records} : \A r \in d.records : r.id <= m)

\* invoice_records.id INTEGER PRIMARY KEY AUTOINCREMENT: one more than the
\* largest id ever issued
NextRecordId(d) == d.nextRecId

\* the body of saveInvoiceData's transaction; src is a history field (the
\* uploaded bytes the file row came from), not a column of the table
saveInvoiceData(d, filename, contentHash, data, src) ==
  LET fileId == d.nextFileId
      n == Len(data.records)
      m == Len(data.columns)
  IN [files |-> d.files \cup
                 {[id |-> fileId, filename |-> filename, content_hash |-> contentHash,
                   total_amount |-> data.totalAmount, src |-> src]},
      records |-> d.records \cup
                 {[id |-> NextRecordId(d) + i - 1, file_id |-> fileId,
                   record_data |-> serializeRecord(data.records[i]),
                   kilometers |-> Null] : i \in 1..n},
      columns |-> d.columns \cup
                 {[id |-> d.nextColId + j - 1, file_id |-> fileId,
                   column_name |-> data.columns[j]] : j \in 1..m},
      nextFileId |-> fileId + 1,
      nextRecId |-> NextRecordId(d) + n,
      nextColId |-> d.nextColId + m]

(* ---------------------------- reconciliation -------------------------- *)
\* String(value || '') of a cell, and the ISO text of a Date
KeyText(value) ==
  CASE value.k = "date" -> toISOString(value.v)
    [] value.k = "str" -> value.v
    [] value.k = "num" -> IF value.v = 0 THEN 0 ELSE NumText(value.v)
    [] OTHER -> 0

getRecordKey(record) ==
  <<KeyText(Get(record, "Lesson Date")), KeyText(Get(record, "Client Name"))>>

\* a Map built by set(key, record) over the list: keys in first-insertion
\* order, each bound to the last record that carries it
MapKeys(records) ==
  LET first == {i \in 1..Len(records) :
                  \A j \in 1..(i - 1) : getRecordKey(records[j]) # getRecordKey(records[i])}
      KeyAt(i) == getRecordKey(records[i])
  IN MapSeq(KeyAt, SetToSeq(first))

MapGet(records, key) ==
  LET hits == {i \in 1..Len(records) : getRecordKey(records[i]) = key}
  IN records[CHOOSE i \in hits : \A j \in hits : j <= i]

NonNullKeys(record) == {key \in DOMAIN record : record[key] # Null /\ record[key] # Undef}

recordsEqual(a, b) ==
  /\ Cardinality(NonNullKeys(a)) = Cardinality(NonNullKeys(b))
  /\ \A key \in NonNullKeys(a) :
        LET aVal == Get(a, key)
            bVal == Get(b, key)
        IN IF aVal.k = "date" /\ bVal.k = "date" THEN aVal.v = bVal.v
           ELSE aVal.k # "date" /\ bVal.k # "date" /\ aVal = bVal

\* compareRecords with the removal loop testing the wrong map
compareRecordsRemovedLost(existingRecords, newRecords) ==
  LET existingKeys == MapKeys(existingRecords)
      newKeys == MapKeys(newRecords)
      InExisting(key) == key \in SeqRange(existingKeys)
      Same(key) == recordsEqual(MapGet(existingRecords, key), MapGet(newRecords, key))
      NewRec(key) == MapGet(newRecords, key)
      OldRec(key) == MapGet(existingRecords, key)
      Pair(key) == [old |-> OldRec(key), new |-> NewRec(key)]
  IN [added |-> MapSeq(NewRec, SelectSeq(newKeys, LAMBDA key : ~InExisting(key))),
      removed |-> MapSeq(OldRec, SelectSeq(existingKeys, LAMBDA key : ~InExisting(key))),
      modified |-> MapSeq(Pair, SelectSeq(newKeys, LAMBDA key : InExisting(key) /\ ~Same(key))),
      unchanged |-> Len(SelectSeq(newKeys, LAMBDA key : InExisting(key) /\ Same(key)))]

compareRecords(existingRecords, newRecords) ==
  LET existingKeys == MapKeys(existingRecords)
      newKeys == MapKeys(newRecords)
      InExisting(key) == key \in SeqRange(existingKeys)
      InNew(key) == key \in SeqRange(newKeys)
      Same(key) == recordsEqual(MapGet(existingRecords, key), MapGet(newRecords, key))
      NewRec(key) == MapGet(newRecords, key)
      OldRec(key) == MapGet(existingRecords, key)
      Pair(key) == [old |-> OldRec(key), new |-> NewRec(key)]
  IN [added |-> MapSeq(NewRec, SelectSeq(newKeys, LAMBDA key : ~InExisting(key))),
      removed |-> MapSeq(OldRec, SelectSeq(existingKeys, LAMBDA key : ~InNew(key))),
      modified |-> MapSeq(Pair, SelectSeq(newKeys, LAMBDA key : InExisting(key) /\ ~Same(key))),
      unchanged |-> Len(SelectSeq(newKeys, LAMBDA key : InExisting(key) /\ Same(key)))]

compareFileData(d, existingFileId, newData) ==
  compareRecords(MapSeq(deserializeRecord, getFileRecords(d, existingFileId)),
                 newData.records)

(* ------------------------------ the uploads --------------------------- *)
\* the client names of the workbooks, as plain texts
PlainText(n) == n
Alice == PlainText(1)
Bob == PlainText(2)

Headers == <<"Lesson Date", "Client Name", "Amount">>

Row(date, client, amount) ==
  [key \in SeqRange(Headers) |->
     IF key = "Lesson Date" THEN date
     ELSE IF key = "Client Name" THEN Str(client)
     ELSE amount]

Sheet(records, total) == [records |-> records, columns |-> Headers, totalAmount |-> total]

ParseError == [records |-> <<>>, columns |-> <<"ParseError">>, totalAmount |-> 0]

\* parseExcelBuffer on the workbooks that are uploaded: workbook b is a
\* distinct byte string; 1 and 2 hold the same cells, 3 changes one amount,
\* 4 moves one lesson to another day and empties a cell, 5 repeats a lesson,
\* 6 has headers and no data row, 7 writes the lesson date as a text that
\* parseDate keeps as a string, 8 has no header row, 9 writes one lesson
\* date as a text that is no date at all (such as "TBA"), 10 has only rows
\* whose first cell is no date, which the parser skips, 11 leaves the lesson
\* date of one row empty.
parseExcelBuffer(b) ==
  CASE b \in {1, 2} -> Sheet(<<Row(DateV(1), Alice, Num(10)), Row(DateV(1), Bob, Num(10))>>, 20)
    [] b = 3 -> Sheet(<<Row(DateV(1), Alice, Num(20)), Row(DateV(1), Bob, Num(10))>>, 30)
    [] b = 4 -> Sheet(<<Row(DateV(1), Alice, Num(10)), Row(DateV(2), Bob, Null)>>, 10)
    [] b = 5 -> Sheet(<<Row(DateV(1), Alice, Num(10)), Row(DateV(1), Alice, Num(20))>>, 30)
    [] b \in {6, 10} -> Sheet(<<>>, 0)
    [] b = 7 -> Sheet(<<Row(Str(RawText(1)), Alice, Num(10))>>, 10)
    [] b = 9 -> Sheet(<<Row(DateV(1), Alice, Num(10)), Row(Str(BadText(1)), Bob, Num(10))>>, 20)
    [] b = 11 -> Sheet(<<Row(DateV(1), Alice, Num(10)), Row(Null, Bob, Num(10))>>, 20)
    [] OTHER -> ParseError

Workbooks == {1, 2, 3, 4, 5, 6, 7, 10}
Uploads == [name : {"jan.xlsx"}, b : Workbooks] \cup [name : {"feb.xlsx"}, b : {3, 4}]

\* the file lists that are posted: every single file, and a few pairs (two
\* names at once, twice the same bytes under two names, an unreadable file
\* before and after a readable one)
File(name, b) == [name |-> name, b |-> b]
Batches ==
  {<<f>> : f \in Uploads} \cup
  {<<File("jan.xlsx", 1), File("feb.xlsx", 3)>>, <<File("jan.xlsx", 4), File("feb.xlsx", 4)>>,
   <<File("jan.xlsx", 8), File("jan.xlsx", 1)>>, <<File("jan.xlsx", 1), File("jan.xlsx", 8)>>}

NoDiff == [added |-> <<>>, removed |-> <<>>, modified |-> <<>>, unchanged |-> 0]

DiffIsEmpty(diff) ==
  Len(diff.added) = 0 /\ Len(diff.removed) = 0 /\ Len(diff.modified) = 0

\* one iteration of the loop of POST /api/upload; st carries the store, the
\* decisions the clients hold, the responses so far and whether the handler
\* has thrown
ProcessFile(st, file) ==
  LET contentHash == computeFileHash(file.b)
      parsedData == parseExcelBuffer(file.b)
      named == FilesByName(st.db, file.name) # {}
      existingId == IF named THEN getFileByFilename(st.db, file.name).id ELSE 0
      diff == IF named THEN compareFileData(st.db, existingId, parsedData) ELSE NoDiff
      Reply(status) ==
        [status |-> status, name |-> file.name, b |-> file.b,
         compared |-> named /\ status # "duplicate", existingFileId |-> existingId,
         diff |-> IF status = "duplicate" THEN NoDiff ELSE diff]
  IN IF st.threw THEN st
     ELSE IF FilesByHash(st.db, contentHash) # {}
       THEN [st EXCEPT !.results = Append(@, Reply("duplicate"))]
     ELSE IF parsedData = ParseError
       THEN [st EXCEPT !.threw = TRUE]
     ELSE IF named /\ ~DiffIsEmpty(diff)
       THEN [st EXCEPT !.results = Append(@, Reply("diff")),
                       !.pending = @ \cup {[filename |-> file.name,
                                            existingFileId |-> existingId,
                                            newData |-> serializeData(parsedData),
                                            src |-> file.b]}]
     ELSE [st EXCEPT !.db = saveInvoiceData(@, file.name, contentHash, parsedData, file.b),
                     !.results = Append(@, Reply("success"))]

RECURSIVE ProcessFiles(_, _)
ProcessFiles(st, files) ==
  IF files = <<>> THEN st
  ELSE ProcessFiles(ProcessFile(st, Head(files)), Tail(files))

\* POST /api/upload
Upload(files) ==
  /\ Tick
  /\ \E st \in {ProcessFiles([db |-> db, pending |-> pending, results |-> <<>>, threw |-> FALSE],
                          files)} :
     /\ st.db.nextFileId <= MaxFileId + 1
     /\ Cardinality(st.pending) <= MaxPending
     /\ db' = st.db
     /\ pending' = st.pending
     /\ last' = [op |-> "upload", files |-> files, results |-> st.results, ok |-> ~st.threw]
     /\ UNCHANGED routeVars

(* --------------------------- replace and merge ------------------------ *)
\* database.transaction(body)(): the body's writes are kept when it
\* returns and undone when it throws; partial is the state the throwing
\* statement was reached in
TransactionNoRollback(d, partial, after, throws) ==
  IF throws THEN [db |-> partial, ok |-> FALSE] ELSE [db |-> after, ok |-> TRUE]

Transaction(d, partial, after, throws) ==
  IF throws THEN [db |-> d, ok |-> FALSE] ELSE [db |-> after, ok |-> TRUE]

replaceFile(d, existingFileId, filename, contentHash, data, src) ==
  LET deleted == deleteFile(d, existingFileId)
  IN Transaction(d, deleted, saveInvoiceData(deleted, filename, contentHash, data, src),
                 SaveThrows(deleted, contentHash))

MergedRecords(existingRecords, data) ==
  LET existingKeys == {getRecordKey(existingRecords[i]) : i \in 1..Len(existingRecords)}
      newRecords == SelectSeq(data.records, LAMBDA r : getRecordKey(r) \notin existingKeys)
  IN MapSeq(deserializeRecord, existingRecords) \o newRecords

\* [...new Set([...existingColumns, ...data.columns])]
UnionColumns(existingColumns, columns) ==
  existingColumns \o SelectSeq(columns, LAMBDA c : c \notin SeqRange(existingColumns))

mergeFile(d, existingFileId, filename, contentHash, data, src) ==
  LET existingRecords == getFileRecords(d, existingFileId)
      existingColumns == getFileColumns(d, existingFileId)
      found == {f \in d.files : f.id = existingFileId}
  IN IF found = {} THEN [db |-> d, ok |-> FALSE]
     ELSE LET existingFile == CHOOSE f \in found : TRUE
              mergedData == [records |-> MergedRecords(existingRecords, data),
                             columns |-> UnionColumns(existingColumns, data.columns),
                             totalAmount |-> existingFile.total_amount + data.totalAmount]
              deleted == deleteFile(d, existingFileId)
          IN Transaction(d, deleted,
                         saveInvoiceData(deleted, filename, contentHash, mergedData, src),
                         SaveThrows(deleted, contentHash))

\* the body of PUT /api/invoices
deserializeData(newData) ==
  [records |-> MapSeq(deserializeRecord, newData.records),
   columns |-> newData.columns,
   totalAmount |-> newData.totalAmount]

\* PUT /api/invoices with the decision p a client holds (handleDiffAction)
Put(action, p) ==
  LET deserializedData == deserializeData(p.newData)
      contentHash == JsonHash(deserializedData)
  IN /\ Tick
     /\ p \in pending
     /\ \E res \in {IF action = "replace"
                 THEN replaceFile(db, p.existingFileId, p.filename, contentHash, deserializedData, p.src)
                 ELSE mergeFile(db, p.existingFileId, p.filename, contentHash, deserializedData, p.src)} :
          /\ res.db.nextFileId <= MaxFileId + 1
          /\ db' = res.db
          /\ pending' = IF res.ok THEN pending \ {p} ELSE pending
          /\ last' = [op |-> action, p |-> p, ok |-> res.ok,
                      newFileId |-> IF res.ok THEN db.nextFileId ELSE 0]
          /\ UNCHANGED routeVars

\* handleDiffAction('cancel')
Cancel(p) ==
  /\ Tick
  /\ p \in pending
  /\ pending' = pending \ {p}
  /\ last' = [op |-> "cancel", p |-> p, ok |-> TRUE]
  /\ UNCHANGED <<db, routeVars>>

\* DELETE /api/invoices
Delete(fileId) ==
  /\ Tick
  /\ \E f \in db.files : f.id = fileId
  /\ db' = deleteFile(db, fileId)
  /\ last' = [op |-> "delete", fileId |-> fileId, ok |-> TRUE]
  /\ UNCHANGED <<pending, routeVars>>

API_DELAY_MS == 1500

\* Date.now(): time stamps are in milliseconds and kept relative to the
\* current instant, so the clock reads 0 and a stamp of the past is negative
now == 0

Callers == {1, 2}

\* a caller that is not in the page: it never calls the routing API
Absent ==
  [pc |-> "absent", calls |-> 0, attempt |-> 0, wakeAt |-> 0, startedAt |-> 0,
   lastResponse |-> 0, lastError |-> FALSE, answer |-> [kind |-> "none", status |-> 0],
   result |-> [kind |-> "none", status |-> 0]]

\* the module state of the distance calculator when the page has loaded:
\* lastApiCallTime is 0, which lies more than the delay before the clock,
\* and no call has gone out
LimiterIdle ==
  /\ lastApiCallTime = now - API_DELAY_MS
  /\ outbound = [at |-> now - API_DELAY_MS, who |-> 0, attempt |-> 0, since |-> API_DELAY_MS,
                 retried |-> FALSE]

\* a page that has computed no distance yet
RouteIdle ==
  /\ distanceCache = <<>>
  /\ distance_cache = {}
  /\ apiKey = TRUE
  /\ invoicesWithDistances = <<>>
  /\ obtained = <<>>

StoreInit ==
  /\ db = EmptyDb
  /\ pending = {}
  /\ last = [op |-> "init", ok |-> TRUE]
  /\ steps = 0
  /\ RouteIdle
  /\ addresses = [home |-> "", clients |-> <<>>]
  /\ LimiterIdle
  /\ caller = [c \in Callers |-> Absent]

StoreNext ==
  \/ \E files \in Batches : Upload(files)
  \/ \E p \in pending : \E action \in {"replace", "merge"} : Put(action, p)
  \/ \E p \in pending : Cancel(p)
  \/ \E f \in db.files : Delete(f.id)

SpecStore == StoreInit /\ [][StoreNext]_vars

(* ------------------- the store under kilometers posts ----------------- *)
\* POST /api/invoices/kilometers from saveKilometersToDb or from the
\* refresh: recordId is the _dbId of a row the page read at some time
\* before, which the store may have deleted since
saveKilometersToDb(recordId, kilometers) ==
  /\ Tick
  /\ db' = updateInvoiceKilometers(db, recordId, kilometers)
  /\ last' = [op |-> "kilometers", recordId |-> recordId, kilometers |-> kilometers,
              ok |-> TRUE]
  /\ UNCHANGED <<pending, routeVars>>

\* the kilometers a computation posts, in metres
PostedKilometers == {5100, 12200}

\* jan.xlsx in three versions: the second changes an amount, the third
\* moves a lesson to another day
KilometersUploads == {<<File("jan.xlsx", b)>> : b \in {1, 3, 4}}

KilometersNext ==
  \/ \E files \in KilometersUploads : Upload(files)
  \/ \E p \in pending : \E action \in {"replace", "merge"} : Put(action, p)
  \/ \E f \in db.files : Delete(f.id)
  \/ \E recordId \in 1..(db.nextRecId - 1) : \E kilometers \in PostedKilometers :
        saveKilometersToDb(recordId, kilometers)

SpecKilometers == StoreInit /\ [][KilometersNext]_vars

(* --------------------------- distance calculator ---------------------- *)
\* Distances are in metres (the provider's unit), so a kilometre is 1000 and
\* a tenth of a kilometre 100.  The provider's answer for a pair changes
\* with the direction and with time: each directions call draws it anew.
Distances == {0, 5120, 7040}

\* address.trim().toLowerCase() on the addresses of the model
Normalize(address) ==
  CASE address \in {"12 Hill St", " 12 hill st"} -> "12 hill st"
    [] address = "3 Bay Rd" -> "3 bay rd"
    [] address = "7 Elm Ct" -> "7 elm ct"
    [] OTHER -> address

MemSet(mem, key, km) == [k \in DOMAIN mem \cup {key} |-> IF k = key THEN km ELSE mem[k]]
\* if (distanceCache[key]): a missing key and a stored 0 are both falsy
MemHit(mem, key) == key \in DOMAIN mem /\ mem[key] # 0

getCachedDistance(table, origin, destination) ==
  {r.distance_km : r \in {r \in table :
       \/ /\ r.origin_address = Normalize(origin)
          /\ r.destination_address = Normalize(destination)
       \/ /\ r.origin_address = Normalize(destination)
          /\ r.destination_address = Normalize(origin)}}

\* INSERT OR REPLACE under UNIQUE(origin_address, destination_address)
setCachedDistance(table, origin, destination, distanceKm) ==
  {r \in table : ~(/\ r.origin_address = Normalize(origin)
                   /\ r.destination_address = Normalize(destination))}
    \cup {[origin_address |-> Normalize(origin),
           destination_address |-> Normalize(destination),
           distance_km |-> distanceKm]}

\* GET /api/distance-cache: the distances the query may return (.get takes
\* the first matching row, in an order the schema does not fix); the empty
\* set is the answer null
checkDbCache(table, origin, destination) ==
  IF origin = "" \/ destination = "" THEN {}
  ELSE getCachedDistance(table, origin, destination)

\* POST /api/distance-cache
saveToDbCache(table, origin, destination, distanceKm) ==
  IF origin = "" \/ destination = "" THEN table
  ELSE setCachedDistance(table, origin, destination, distanceKm)

\* what geocodeAddress and the directions call of one calculateDistance can
\* come to, retries included
Outcomes ==
  {[geocoded |-> 0, km |-> Null], [geocoded |-> 1, km |-> Null],
   [geocoded |-> 2, km |-> Null]} \cup {[geocoded |-> 2, km |-> Num(d)] : d \in Distances}

SameAddressRaw(origin, destination) == origin = destination

SameAddress(origin, destination) == Normalize(origin) = Normalize(destination)

AddressPair(origin, destination) == {origin, destination}

\* the distance the caches owe a lookup of (origin, destination): the
\* provider's latest answer for the pair, when it was given for the
\* opposite order
Owed(c, origin, destination) ==
  IF /\ AddressPair(origin, destination) \in DOMAIN c.obtained
     /\ c.obtained[AddressPair(origin, destination)].origin = destination
     /\ c.obtained[AddressPair(origin, destination)].destination = origin
  THEN Num(c.obtained[AddressPair(origin, destination)].km)
  ELSE Null

\* the provider's latest answers for the two orders of a pair
Each(c, origin, destination) ==
  IF AddressPair(origin, destination) \in DOMAIN c.obtained
  THEN c.obtained[AddressPair(origin, destination)].each
  ELSE <<>>

\* the provider's latest answer for (origin, destination) in this order
Fresh(c, origin, destination) ==
  IF <<origin, destination>> \in DOMAIN Each(c, origin, destination)
  THEN Num(Each(c, origin, destination)[<<origin, destination>>])
  ELSE Null

\* c holds the caches, the key and the history; the result is the set of
\* the states the call can end in, each with the returned value in ret and
\* the call appended to calls.  Of a call's record, memoryHit and durableHit
\* tell what the two caches held when the call began, answers is the test of
\* the in-memory map (if (distanceCache[cacheKey])) on the map the call
\* leaves, and row and leg are filled in by the route loop that made the call
calculateDistance(c, origin, destination, skipCache) ==
  LET cacheKey == <<origin, destination>>
      reverseCacheKey == <<destination, origin>>
      Return(mem, table, got, ret, tier, geocodes, directions) ==
        [c EXCEPT !.distanceCache = mem,
                  !.distance_cache = table,
                  !.obtained = got,
                  !.ret = ret,
                  !.calls = Append(@, [origin |-> origin, destination |-> destination,
                                       skipCache |-> skipCache, ret |-> ret, tier |-> tier,
                                       geocodes |-> geocodes, directions |-> directions,
                                       owed |-> IF skipCache THEN Null
                                                ELSE Owed(c, origin, destination),
                                       fresh |-> IF skipCache THEN Null
                                                 ELSE Fresh(c, origin, destination),
                                       memory |-> IF cacheKey \in DOMAIN mem
                                                  THEN Num(mem[cacheKey]) ELSE Null,
                                       stored |-> {r.distance_km : r \in {r \in table :
                                           /\ r.origin_address = Normalize(origin)
                                           /\ r.destination_address = Normalize(destination)}},
                                       memoryHit |-> \/ MemHit(c.distanceCache, cacheKey)
                                                     \/ MemHit(c.distanceCache, reverseCacheKey),
                                       durableHit |-> checkDbCache(c.distance_cache, origin,
                                                                   destination) # {},
                                       answers |-> MemHit(mem, cacheKey),
                                       row |-> Null, leg |-> "none",
                                       zeroInMemory |-> cacheKey \in DOMAIN mem /\ mem[cacheKey] = 0,
                                       zeroInTable |-> [origin_address |-> Normalize(origin),
                                                    destination_address |-> Normalize(destination),
                                                    distance_km |-> 0] \in table])]
      Provider(o) ==
        IF o.geocoded < 2 \/ o.km = Null
        THEN Return(c.distanceCache, c.distance_cache, c.obtained, Null, "provider",
                    IF o.geocoded = 0 THEN 1 ELSE 2, IF o.geocoded = 2 THEN 1 ELSE 0)
        ELSE Return(MemSet(c.distanceCache, cacheKey, o.km.v),
                    saveToDbCache(c.distance_cache, origin, destination, o.km.v),
                    MemSet(c.obtained, AddressPair(origin, destination),
                           [origin |-> origin, destination |-> destination, km |-> o.km.v,
                            each |-> MemSet(Each(c, origin, destination), cacheKey, o.km.v)]),
                    o.km, "provider", 2, 1)
  IN IF SameAddress(origin, destination)
     THEN {Return(MemSet(c.distanceCache, cacheKey, 0),
                  saveToDbCache(c.distance_cache, origin, destination, 0),
                  c.obtained, Num(0), "same", 0, 0)}
     ELSE IF ~skipCache /\ MemHit(c.distanceCache, cacheKey)
     THEN {Return(c.distanceCache, c.distance_cache, c.obtained,
                  Num(c.distanceCache[cacheKey]), "memory", 0, 0)}
     ELSE IF ~skipCache /\ MemHit(c.distanceCache, reverseCacheKey)
     THEN {Return(c.distanceCache, c.distance_cache, c.obtained,
                  Num(c.distanceCache[reverseCacheKey]), "memory", 0, 0)}
     ELSE IF ~skipCache /\ checkDbCache(c.distance_cache, origin, destination) # {}
     THEN {Return(MemSet(c.distanceCache, cacheKey, km), c.distance_cache, c.obtained,
                  Num(km), "durable", 0, 0) :
             km \in checkDbCache(c.distance_cache, origin, destination)}
     ELSE IF ~c.apiKey
     THEN {Return(c.distanceCache, c.distance_cache, c.obtained, Null, "provider", 0, 0)}
     ELSE {Provider(o) : o \in Outcomes}

(* ------------------------------ day routes ---------------------------- *)
\* localStorage: the empty text stands for an address that is not set
getHomeAddress(book) == book.home
getClientAddress(book, clientName) ==
  IF clientName \in DOMAIN book.clients THEN book.clients[clientName] ELSE ""

\* Math.round(totalDistance * 10) / 10, on metres
round1(m) == ((m + 50) \div 100) * 100

\* the "YYYY-MM-DD" text of toISOString(); every instant of the model lies
\* on a day of its own
DayText(t) == 500 + t

Truthy(value) ==
  CASE value.k \in {"null", "undef"} -> FALSE
    [] value.k \in {"num", "str"} -> value.v # 0
    [] OTHER -> TRUE

\* { ...invoice, kilometers }
WithKilometers(invoice, km) ==
  [key \in DOMAIN invoice \cup {"kilometers"} |->
     IF key = "kilometers" THEN Num(km) ELSE invoice[key]]

\* { ...inv, kilometers: inv.kilometers || 0 }
KeepKilometers(invoice) ==
  WithKilometers(invoice, IF Truthy(Get(invoice, "kilometers"))
                          THEN Get(invoice, "kilometers").v ELSE 0)

ZeroKilometers(invoice) == WithKilometers(invoice, 0)

\* the grouping loop: "skip" leaves the row out of every group, "throw" is
\* the RangeError of toISOString() on an invalid Date
DateKey(dateValue) ==
  IF ~Truthy(dateValue) THEN [kind |-> "skip", key |-> 0]
  ELSE IF dateValue.k = "date" THEN [kind |-> "key", key |-> DayText(dateValue.v)]
  ELSE IF dateValue.k = "str"
  THEN IF JSDateParse(dateValue.v) >= 0
       THEN [kind |-> "key", key |-> DayText(JSDateParse(dateValue.v))]
       ELSE [kind |-> "throw", key |-> 0]
  ELSE [kind |-> "skip", key |-> 0]

InvoiceDateKey(invoice) == DateKey(Get(invoice, "Lesson Date"))

\* the keys of invoicesByDate in insertion order
DateKeys(invoices) ==
  LET keyed == {i \in 1..Len(invoices) : InvoiceDateKey(invoices[i]).kind = "key"}
      first == {i \in keyed : \A j \in keyed : j < i =>
                  InvoiceDateKey(invoices[j]) # InvoiceDateKey(invoices[i])}
      KeyAt(i) == InvoiceDateKey(invoices[i]).key
  IN MapSeq(KeyAt, SetToSeq(first))

DayInvoices(invoices, dateKey) ==
  SelectSeq(invoices, LAMBDA invoice : InvoiceDateKey(invoice) = [kind |-> "key", key |-> dateKey])

ClientNameOf(invoice) == Get(invoice, "Client Name").v

\* the stored value is never taken
HasStoredKilometersNever(invoice) == FALSE

\* existingKm !== undefined && existingKm !== null && existingKm > 0
HasStoredKilometers(invoice) ==
  Get(invoice, "kilometers").k = "num" /\ Get(invoice, "kilometers").v > 0

\* the rows of a day that need a route
ValidClients(dayInvoices, book) ==
  SelectSeq(dayInvoices, LAMBDA invoice :
     ~HasStoredKilometers(invoice) /\ getClientAddress(book, ClientNameOf(invoice)) # "")

\* the rows the first loop of a day pushes: stored kilometers verbatim, and
\* 0 for a client without address
PushedFirst(dayInvoices, book) ==
  LET Pushed(invoice) ==
        IF HasStoredKilometers(invoice) THEN invoice ELSE ZeroKilometers(invoice)
  IN MapSeq(Pushed, SelectSeq(dayInvoices, LAMBDA invoice :
        HasStoredKilometers(invoice) \/ getClientAddress(book, ClientNameOf(invoice)) = ""))

Metres(ret) == IF ret = Null THEN 0 ELSE ret.v

\* history: the call just made is marked with the row it was made for and
\* with the leg it measures, "out" to the client or "back" home
TripLeg(c, invoice, leg) ==
  [c EXCEPT !.calls[Len(c.calls)] = [@ EXCEPT !.row = Get(invoice, "_dbId"), !.leg = leg]]

\* the kilometers are posted whatever their value
SaveKilometersAlways(dbId, kilometers) == Truthy(dbId)

\* if (dbId && kilometers > 0)
SaveKilometers(dbId, kilometers) == Truthy(dbId) /\ kilometers > 0

\* RouteClient with the previous stop never advanced
RouteClientFromHome(r, invoice, isLastClient, book) ==
  LET clientAddress == getClientAddress(book, ClientNameOf(invoice))
      dbId == Get(invoice, "_dbId")
      Stop(toClient, c2) ==
        LET totalDistance == Metres(toClient) + (IF isLastClient THEN Metres(c2.ret) ELSE 0)
            kilometers == round1(totalDistance)
            save == SaveKilometers(dbId, kilometers)
        IN [c |-> IF save
                  THEN [c2 EXCEPT !.writes = Append(@, [recordId |-> dbId.v,
                                                        kilometers |-> kilometers])]
                  ELSE c2,
            db |-> IF save THEN updateInvoiceKilometers(r.db, dbId.v, kilometers) ELSE r.db,
            out |-> Append(r.out, WithKilometers(invoice, kilometers)),
            previousAddress |-> r.previousAddress]
  IN UNION {{Stop(c1.ret, c2) :
               c2 \in IF isLastClient
                      THEN {TripLeg(c, invoice, "back") :
                              c \in calculateDistance(c1, clientAddress, getHomeAddress(book),
                                                      FALSE)}
                      ELSE {c1}} :
            c1 \in {TripLeg(c, invoice, "out") :
                      c \in calculateDistance(r.c, r.previousAddress, clientAddress, FALSE)}}

\* one pass of the second loop; r is [c, db, out, previousAddress]
RouteClient(r, invoice, isLastClient, book) ==
  LET clientAddress == getClientAddress(book, ClientNameOf(invoice))
      dbId == Get(invoice, "_dbId")
      Stop(toClient, c2) ==
        LET totalDistance == Metres(toClient) + (IF isLastClient THEN Metres(c2.ret) ELSE 0)
            kilometers == round1(totalDistance)
            save == SaveKilometers(dbId, kilometers)
        IN [c |-> IF save
                  THEN [c2 EXCEPT !.writes = Append(@, [recordId |-> dbId.v,
                                                        kilometers |-> kilometers])]
                  ELSE c2,
            db |-> IF save THEN updateInvoiceKilometers(r.db, dbId.v, kilometers) ELSE r.db,
            out |-> Append(r.out, WithKilometers(invoice, kilometers)),
            previousAddress |-> clientAddress]
  IN UNION {{Stop(c1.ret, c2) :
               c2 \in IF isLastClient
                      THEN {TripLeg(c, invoice, "back") :
                              c \in calculateDistance(c1, clientAddress, getHomeAddress(book),
                                                      FALSE)}
                      ELSE {c1}} :
            c1 \in {TripLeg(c, invoice, "out") :
                      c \in calculateDistance(r.c, r.previousAddress, clientAddress, FALSE)}}

RECURSIVE RouteClients(_, _, _, _)
RouteClients(rs, validClients, i, book) ==
  IF i > Len(validClients) THEN rs
  ELSE RouteClients(UNION {RouteClient(r, validClients[i], i = Len(validClients), book) : r \in rs},
                    validClients, i + 1, book)

RouteDay(r, dayInvoices, book) ==
  RouteClients({[r EXCEPT !.out = @ \o PushedFirst(dayInvoices, book),
                          !.previousAddress = getHomeAddress(book)]},
               ValidClients(dayInvoices, book), 1, book)

RECURSIVE RouteDays(_, _, _, _, _)
RouteDays(rs, invoices, dateKeys, i, book) ==
  IF i > Len(dateKeys) THEN rs
  ELSE RouteDays(UNION {RouteDay(r, DayInvoices(invoices, dateKeys[i]), book) : r \in rs},
                 invoices, dateKeys, i + 1, book)

\* the set of the results [c, db, out, ok] the run can have; ok is FALSE
\* when the promise rejects
calculateRoutesForInvoices(c, d, invoices, book) ==
  LET r0 == [c |-> c, db |-> d, out |-> <<>>, previousAddress |-> getHomeAddress(book)]
      Result(r) == [c |-> r.c, db |-> r.db, out |-> r.out, ok |-> TRUE]
  IN IF \/ getHomeAddress(book) = ""
        \/ Len(invoices) = 0
        \/ "Lesson Date" \notin DOMAIN invoices[1]
        \/ "Client Name" \notin DOMAIN invoices[1]
     THEN {[c |-> c, db |-> d, out |-> MapSeq(KeepKilometers, invoices), ok |-> TRUE]}
     ELSE IF \E i \in 1..Len(invoices) : InvoiceDateKey(invoices[i]).kind = "throw"
     THEN {[c |-> c, db |-> d, out |-> <<>>, ok |-> FALSE]}
     ELSE {Result(r) : r \in RouteDays({r0}, invoices, DateKeys(invoices), 1, book)}

(* -------------------------------- the page ---------------------------- *)
MaxRouteSteps == 3

RouteTick == steps < MaxRouteSteps /\ steps' = steps + 1 /\ UNCHANGED limiterVars

\* uploaded_files ORDER BY uploaded_at DESC, for files uploaded at
\* different times
getAllUploadedFiles(d) ==
  LET ids == SetToSeq({f.id : f \in d.files})
  IN [i \in 1..Len(ids) |-> ids[Len(ids) + 1 - i]]

RECURSIVE AllRecords(_, _, _)
AllRecords(d, fileIds, i) ==
  IF i > Len(fileIds) THEN <<>>
  ELSE MapSeq(deserializeRecord, getFileRecords(d, fileIds[i])) \o AllRecords(d, fileIds, i + 1)

\* GET /api/invoices
getAllInvoices(d) == MapSeq(serializeRecord, AllRecords(d, getAllUploadedFiles(d), 1))

\* value.match(/^\d{4}-\d{2}-\d{2}T/)
IsIsoText(c) == c >= IsoText(0) /\ c < RawText(0)

processRecord(record) ==
  [key \in DOMAIN record |->
     IF record[key].k = "str" /\ IsIsoText(record[key].v)
     THEN DateV(JSDateParse(record[key].v))
     ELSE record[key]]

Context(mem) ==
  [distanceCache |-> mem, distance_cache |-> distance_cache, apiKey |-> apiKey,
   obtained |-> obtained, ret |-> Null, calls |-> <<>>, writes |-> <<>>]

\* loadInvoicesFromDatabase over the store d with the session's map mem:
\* the set of the ends [c, db, input, rows] it can come to
loadInvoicesFromDatabase(d, mem) ==
  LET processedRecords == MapSeq(processRecord, getAllInvoices(d))
      Shown(r) == [c |-> r.c, db |-> r.db, input |-> processedRecords, rejected |-> ~r.ok,
                   rows |-> IF r.ok THEN r.out ELSE MapSeq(ZeroKilometers, processedRecords)]
  IN IF Len(processedRecords) = 0
     THEN {[c |-> Context(mem), db |-> d, input |-> <<>>, rejected |-> FALSE,
            rows |-> invoicesWithDistances]}
     ELSE IF getHomeAddress(addresses) = ""
     THEN {[c |-> Context(mem), db |-> d, input |-> processedRecords, rejected |-> FALSE,
            rows |-> MapSeq(ZeroKilometers, processedRecords)]}
     ELSE {Shown(r) : r \in calculateRoutesForInvoices(Context(mem), d, processedRecords,
                                                        addresses)}

Shows(end, op) ==
  /\ db' = end.db
  /\ distanceCache' = end.c.distanceCache
  /\ distance_cache' = end.c.distance_cache
  /\ obtained' = end.c.obtained
  /\ invoicesWithDistances' = end.rows
  /\ last' = [op |-> op, ok |-> TRUE, calls |-> end.c.calls, writes |-> end.c.writes,
              input |-> end.input, rows |-> end.rows, rejected |-> end.rejected]
  /\ UNCHANGED <<apiKey, addresses>>

\* a new session: the module-level map starts empty and the mount effect
\* loads the invoices
OpenPage ==
  /\ RouteTick
  /\ \E end \in loadInvoicesFromDatabase(db, <<>>) : Shows(end, "open")
  /\ UNCHANGED pending

\* handleFilesSelected: POST /api/upload, then a reload when a file was saved
FilesSelected(files) ==
  /\ RouteTick
  /\ \E st \in {ProcessFiles([db |-> db, pending |-> pending, results |-> <<>>, threw |-> FALSE],
                          files)} :
       /\ pending' = st.pending
       /\ IF ~st.threw /\ \E i \in 1..Len(st.results) : st.results[i].status = "success"
          THEN \E end \in loadInvoicesFromDatabase(st.db, distanceCache) : Shows(end, "files")
          ELSE /\ db' = st.db
               /\ last' = [op |-> "files", ok |-> ~st.threw, calls |-> <<>>, writes |-> <<>>,
                           input |-> <<>>, rows |-> invoicesWithDistances, rejected |-> FALSE]
               /\ UNCHANGED routeVars

\* handleRefreshDistance(invoiceIndex)
RefreshDistance(invoiceIndex) ==
  LET invoice == invoicesWithDistances[invoiceIndex]
      homeAddress == getHomeAddress(addresses)
      clientAddress == getClientAddress(addresses, ClientNameOf(invoice))
      dbId == Get(invoice, "_dbId")
      End(toClient, c2) ==
        LET kilometers == round1(Metres(toClient) + Metres(c2.ret))
            save == Truthy(dbId) /\ kilometers > 0
        IN [c |-> IF save
                  THEN [c2 EXCEPT !.writes = Append(@, [recordId |-> dbId.v,
                                                        kilometers |-> kilometers])]
                  ELSE c2,
            db |-> IF save THEN updateInvoiceKilometers(db, dbId.v, kilometers) ELSE db,
            input |-> <<invoice>>,
            rejected |-> FALSE,
            rows |-> [invoicesWithDistances EXCEPT
                        ![invoiceIndex] = WithKilometers(invoice, kilometers)]]
  IN /\ RouteTick
     /\ invoiceIndex \in 1..Len(invoicesWithDistances)
     /\ homeAddress # ""
     /\ "Client Name" \in DOMAIN invoice
     /\ clientAddress # ""
     /\ \E c1 \in calculateDistance(Context(distanceCache), homeAddress, clientAddress, TRUE) :
          \E c2 \in calculateDistance(c1, clientAddress, homeAddress, TRUE) :
             Shows(End(c1.ret, c2), "refresh")
     /\ UNCHANGED pending

clearDistanceCache ==
  /\ RouteTick
  /\ distanceCache' = <<>>
  /\ distance_cache' = {}
  /\ obtained' = <<>>
  /\ last' = [op |-> "clear", ok |-> TRUE, calls |-> <<>>, writes |-> <<>>,
              input |-> <<>>, rows |-> invoicesWithDistances, rejected |-> FALSE]
  /\ UNCHANGED <<storeVars, apiKey, addresses, invoicesWithDistances>>

setOrsApiKey(key) ==
  /\ RouteTick
  /\ key # apiKey
  /\ apiKey' = key
  /\ last' = [op |-> "key", ok |-> TRUE, calls |-> <<>>, writes |-> <<>>,
              input |-> <<>>, rows |-> invoicesWithDistances, rejected |-> FALSE]
  /\ UNCHANGED <<storeVars, distanceCache, distance_cache, addresses, invoicesWithDistances,
                 obtained>>

\* the address books of the sessions: two clients away from home, and a
\* client living at the home address with a second client without address
AddressBooks ==
  {[home |-> "12 Hill St", clients |-> (Alice :> "3 Bay Rd" @@ Bob :> "7 Elm Ct")],
   [home |-> "12 Hill St", clients |-> (Alice :> " 12 hill st")]}

RouteUploads ==
  {<<File("jan.xlsx", 1)>>, <<File("feb.xlsx", 5)>>, <<File("mar.xlsx", 9)>>,
   <<File("apr.xlsx", 11)>>}

RouteInit ==
  /\ db = EmptyDb
  /\ pending = {}
  /\ last = [op |-> "init", ok |-> TRUE, calls |-> <<>>, writes |-> <<>>, input |-> <<>>,
             rows |-> <<>>, rejected |-> FALSE]
  /\ steps = 0
  /\ RouteIdle
  /\ addresses \in AddressBooks
  /\ LimiterIdle
  /\ caller = [c \in Callers |-> Absent]

RouteNext ==
  \/ OpenPage
  \/ \E files \in RouteUploads : FilesSelected(files)
  \/ \E i \in 1..Len(invoicesWithDistances) : RefreshDistance(i)
  \/ clearDistanceCache
  \/ \E key \in BOOLEAN : setOrsApiKey(key)

SpecRoutes == RouteInit /\ [][RouteNext]_vars

(* ------------------------ the routing API client --------------------- *)
\* The clock moves in steps of a third of the delay; a fetch settles within
\* MaxLatency steps, and a timer fires at its time.  A stamp older than the
\* delay is kept as if it were just that old.
MaxCalls == 2
MaxLatency == 1

TimeStep == API_DELAY_MS \div 3

\* the store and the page stand still while the calls are made
LimiterFrame == UNCHANGED <<storeVars, routeVars, last, steps>>

maxRetries == 3

Max(a, b) == IF a >= b THEN a ELSE b

\* the answers of a fetch: a response with its status and Retry-After
\* header in seconds (5 when the header is missing), or a network error
Responses ==
  {[kind |-> "response", status |-> 200, retryAfter |-> 5],
   [kind |-> "response", status |-> 429, retryAfter |-> 5],
   [kind |-> "response", status |-> 429, retryAfter |-> 1],
   [kind |-> "error", status |-> 0, retryAfter |-> 0]}

Min(a, b) == IF a <= b THEN a ELSE b

\* the record of an outbound call that starts now; since is the time since
\* the previous outbound call started, retried whether any call so far was
\* a retry attempt
Outbound(previous, c, attempt) ==
  [at |-> now, who |-> c, attempt |-> attempt, since |-> Min(now - previous.at, API_DELAY_MS),
   retried |-> previous.retried \/ attempt > 0]

\* await fetch(url, options) of the attempt s.attempt
Fetch(c, s) ==
  /\ caller' = [caller EXCEPT ![c] = [s EXCEPT !.pc = "fetch", !.startedAt = now]]
  /\ outbound' = Outbound(outbound, c, s.attempt)

\* the first attempt of a fetchWithRetry call, right after rateLimitedDelay
\* has stamped lastApiCallTime
FirstFetch(c) ==
  /\ lastApiCallTime' = now
  /\ Fetch(c, [caller[c] EXCEPT !.attempt = 0, !.lastResponse = 0, !.lastError = FALSE,
                                !.answer = [kind |-> "none", status |-> 0],
                                !.result = [kind |-> "none", status |-> 0]])

\* rateLimitedDelay up to its await
rateLimitedDelay(c) ==
  LET timeSinceLastCall == now - lastApiCallTime
      waitTime == API_DELAY_MS - timeSinceLastCall
  IN /\ caller[c].pc = "idle"
     /\ IF timeSinceLastCall < API_DELAY_MS
        THEN /\ caller' = [caller EXCEPT ![c].pc = "delay", ![c].wakeAt = now + waitTime]
             /\ UNCHANGED <<lastApiCallTime, outbound>>
        ELSE FirstFetch(c)
     /\ LimiterFrame

\* rateLimitedDelay after its await
DelayOver(c) ==
  /\ caller[c].pc = "delay"
  /\ now >= caller[c].wakeAt
  /\ FirstFetch(c)
  /\ LimiterFrame

\* the call is over with result; the caller goes on to its next call
Finished(s, result) ==
  [s EXCEPT !.result = result, !.calls = @ - 1, !.wakeAt = 0, !.startedAt = 0,
            !.pc = IF s.calls > 1 THEN "idle" ELSE "done"]

\* Settled with a retry after every response
SettledRetriesAll(s, answer) ==
  LET t == [s EXCEPT !.answer = [kind |-> answer.kind, status |-> answer.status]]
  IN IF answer.kind = "response"
     THEN [t EXCEPT !.lastResponse = answer.status, !.pc = "backoff",
                    !.wakeAt = now + Max(answer.retryAfter * 1000, (s.attempt + 1) * 2000)]
     ELSE [t EXCEPT !.lastError = TRUE, !.pc = "backoff",
                    !.wakeAt = now + (s.attempt + 1) * 2000]

\* the body of the loop of fetchWithRetry once the fetch has settled with
\* answer
Settled(s, answer) ==
  LET t == [s EXCEPT !.answer = [kind |-> answer.kind, status |-> answer.status]]
  IN IF answer.kind = "response"
     THEN IF answer.status = 429
          THEN [t EXCEPT !.lastResponse = 429, !.pc = "backoff",
                         !.wakeAt = now + Max(answer.retryAfter * 1000, (s.attempt + 1) * 2000)]
          ELSE Finished(t, [kind |-> "response", status |-> answer.status])
     ELSE [t EXCEPT !.lastError = TRUE, !.pc = "backoff",
                    !.wakeAt = now + (s.attempt + 1) * 2000]


\* the fetch of caller c settles
FetchSettles(c, answer) ==
  /\ caller[c].pc = "fetch"
  /\ caller' = [caller EXCEPT ![c] = Settled(caller[c], answer)]
  /\ UNCHANGED <<lastApiCallTime, outbound>>
  /\ LimiterFrame

\* fetchWithRetry after the loop
Exhausted(s) ==
  IF s.lastResponse # 0
  THEN Finished(s, [kind |-> "response", status |-> s.lastResponse])
  ELSE Finished(s, [kind |-> "throw", status |-> 0])

\* the sleep after a 429 or a network error is over: the next attempt, or
\* the end of the loop
BackoffOver(c) ==
  /\ caller[c].pc = "backoff"
  /\ now >= caller[c].wakeAt
  /\ IF caller[c].attempt + 1 < maxRetries
     THEN Fetch(c, [caller[c] EXCEPT !.attempt = @ + 1])
     ELSE /\ caller' = [caller EXCEPT ![c] = Exhausted(caller[c])]
          /\ UNCHANGED outbound
  /\ UNCHANGED lastApiCallTime
  /\ LimiterFrame

\* a second handler starts while the first is in flight
Arrive(c) ==
  /\ caller[c].pc = "away"
  /\ caller' = [caller EXCEPT ![c].pc = "idle"]
  /\ UNCHANGED <<lastApiCallTime, outbound>>
  /\ LimiterFrame

\* what has to happen before the clock moves on
Urgent(c) ==
  \/ caller[c].pc = "idle"
  \/ caller[c].pc \in {"delay", "backoff"} /\ now >= caller[c].wakeAt
  \/ caller[c].pc = "fetch" /\ now - caller[c].startedAt >= MaxLatency * TimeStep

\* a stamp of the past after one more step of the clock
Elapsed(stamp) == Max(stamp - TimeStep, now - API_DELAY_MS)

\* the clock moves on by one step
Advance ==
  /\ \E c \in Callers : caller[c].pc \in {"delay", "backoff", "fetch"}
  /\ \A c \in Callers : ~Urgent(c)
  /\ lastApiCallTime' = Elapsed(lastApiCallTime)
  /\ outbound' = [outbound EXCEPT !.at = Elapsed(@)]
  /\ caller' = [c \in Callers |->
                  [caller[c] EXCEPT
                     !.wakeAt = IF caller[c].pc \in {"delay", "backoff"} THEN @ - TimeStep ELSE @,
                     !.startedAt = IF caller[c].pc = "fetch" THEN @ - TimeStep ELSE @]]
  /\ LimiterFrame

LimiterInit ==
  /\ db = EmptyDb
  /\ pending = {}
  /\ last = [op |-> "init", ok |-> TRUE]
  /\ steps = 0
  /\ RouteIdle
  /\ addresses = [home |-> "", clients |-> <<>>]
  /\ LimiterIdle
  /\ \E first \in 1..MaxCalls : \E second \in 0..MaxCalls :
       caller = [c \in Callers |->
                   IF c = 1 THEN [Absent EXCEPT !.pc = "idle", !.calls = first]
                   ELSE IF second = 0 THEN Absent
                   ELSE [Absent EXCEPT !.pc = "away", !.calls = second]]

LimiterNext ==
  \/ \E c \in Callers : rateLimitedDelay(c)
  \/ \E c \in Callers : DelayOver(c)
  \/ \E c \in Callers : \E answer \in Responses : FetchSettles(c, answer)
  \/ \E c \in Callers : BackoffOver(c)
  \/ \E c \in Callers : Arrive(c)
  \/ Advance

SpecLimiter == LimiterInit /\ [][LimiterNext]_vars

\* the event loop runs every timer that is due and every fetch settles
SpecLimiterFair == SpecLimiter /\ WF_vars(LimiterNext)

(* ------------------------- claims on the store ------------------------ *)
IsUpload(l) == l.op = "upload"
IsPut(l) == l.op \in {"replace", "merge"}

\* the attributes of a stored row, as compareFileData reads them, without
\* the database id and the kilometers that getFileRecords attaches
Attributes(row) ==
  deserializeRecord([key \in DOMAIN row.record_data \ {"_dbId", "kilometers"} |->
                       row.record_data[key]])

KeySet(records) == {getRecordKey(records[i]) : i \in 1..Len(records)}
StoredKeySet(d, fileId) == {getRecordKey(Attributes(r)) : r \in RowsOf(d, fileId)}
DistinctKeys(records) == Cardinality(KeySet(records)) = Len(records)
StoredDistinctKeys(d, fileId) ==
  Cardinality(StoredKeySet(d, fileId)) = Cardinality(RowsOf(d, fileId))

\* C1: a file whose bytes were uploaded before and ended up stored (saved
\* directly, or through a replace or merge decision) and are still stored
\* is answered `duplicate` when uploaded again, and the store is unchanged.
C1_ReuploadIsDuplicate ==
  [][(IsUpload(last') /\ Len(last'.files) = 1
        /\ \E f \in db.files : f.src = last'.files[1].b)
     => (/\ last'.ok
         /\ Len(last'.results) = 1
         /\ last'.results[1].status = "duplicate"
         /\ db' = db)]_vars

\* C2: when the stored file and the uploaded file of the same name have the
\* same n pairwise distinct row keys and exactly m of these rows differ in
\* a non-null attribute, the diff has m modified, n - m unchanged, no added
\* and no removed rows.
ChangedKeys(d, fileId, records) ==
  {key \in KeySet(records) :
     \E r \in RowsOf(d, fileId) :
        /\ getRecordKey(Attributes(r)) = key
        /\ ~recordsEqual(Attributes(r), MapGet(records, key))}

C2_ModifiedCount ==
  IsUpload(last) =>
    \A i \in 1..Len(last.results) :
       LET res == last.results[i]
           records == parseExcelBuffer(res.b).records
       IN (/\ res.compared
           /\ DistinctKeys(records)
           /\ StoredDistinctKeys(db, res.existingFileId)
           /\ KeySet(records) = StoredKeySet(db, res.existingFileId))
          => (/\ Len(res.diff.modified)
                   = Cardinality(ChangedKeys(db, res.existingFileId, records))
              /\ res.diff.unchanged
                   = Len(records) - Cardinality(ChangedKeys(db, res.existingFileId, records))
              /\ Len(res.diff.added) = 0
              /\ Len(res.diff.removed) = 0)

\* C3: compareFileData partitions by row key: added + modified + unchanged
\* is the number of distinct row keys of the new file, and removed +
\* modified + unchanged the number of distinct row keys of the stored file;
\* these are the row counts when no two rows of a file share a key.
C3_DiffPartition ==
  IsUpload(last) =>
    \A i \in 1..Len(last.results) :
       LET res == last.results[i]
           records == parseExcelBuffer(res.b).records
           inBoth == Len(res.diff.modified) + res.diff.unchanged
       IN res.compared =>
            /\ Len(res.diff.added) + inBoth = Cardinality(KeySet(records))
            /\ Len(res.diff.removed) + inBoth
                 = Cardinality(StoredKeySet(db, res.existingFileId))
            /\ DistinctKeys(records) => Len(res.diff.added) + inBoth = Len(records)
            /\ StoredDistinctKeys(db, res.existingFileId)
                 => Len(res.diff.removed) + inBoth
                      = Cardinality(RowsOf(db, res.existingFileId))

C3_Witness ==
  /\ IsUpload(last)
  /\ \E i \in 1..Len(last.results) :
        /\ last.results[i].compared
        /\ Len(last.results[i].diff.added) > 0
        /\ Len(last.results[i].diff.removed) > 0
        /\ Len(last.results[i].diff.modified) > 0

\* C4: a merge that succeeds leaves n + k rows under the new file, n the
\* rows of the existing file and k the rows of the new data whose row key
\* is not the row key of an existing row.
DisjointRows(d, fileId, records) ==
  {i \in 1..Len(records) : getRecordKey(records[i]) \notin StoredKeySet(d, fileId)}

C4_MergeAddsDisjoint ==
  [][(last'.op = "merge" /\ last'.ok)
     => Cardinality(RowsOf(db', last'.newFileId))
          = Cardinality(RowsOf(db, last'.p.existingFileId))
            + Cardinality(DisjointRows(db, last'.p.existingFileId,
                                       deserializeData(last'.p.newData).records))]_vars

\* C5: after a replace that succeeds the rows stored under the filename are
\* exactly the rows of the new data, and no row or column of the existing
\* file remains.
RowsUnderName(d, filename) ==
  {r \in d.records : \E f \in FilesByName(d, filename) : r.file_id = f.id}

C5_ReplaceExact ==
  [][(last'.op = "replace" /\ last'.ok)
     => (/\ RowsOf(db', last'.p.existingFileId) = {}
         /\ ColsOf(db', last'.p.existingFileId) = {}
         /\ RowsUnderName(db', last'.p.filename) = RowsOf(db', last'.newFileId)
         /\ MapSeq(deserializeRecord, getFileRecords(db', last'.newFileId))
              = [i \in 1..Len(last'.p.newData.records) |->
                   deserializeRecord(last'.p.newData.records[i])
                     @@ ("_dbId" :> Num(RowIds(db', last'.newFileId)[i]))])]_vars

\* C6: a replace or merge that fails leaves the files, rows and columns of
\* the store as they were before the call.
C6_FailedPutKeepsStore ==
  [][(IsPut(last') /\ ~last'.ok) => db' = db]_vars

C6_Witness ==
  /\ IsPut(last)
  /\ ~last.ok
  /\ \E f \in db.files : f.id = last.p.existingFileId
  /\ RowsOf(db, last.p.existingFileId) # {}

(* ----------------------- claims on the distances ---------------------- *)
IsLoad(l) == l.op \in {"open", "files"}

\* C7: once calculateDistance(A,B) has obtained a distance from the
\* provider and cached it, a calculateDistance(B,A) without skipCache
\* returns that distance and makes no geocode and no directions call.
C7_ReverseFromCache ==
  \A i \in 1..Len(last.calls) :
     last.calls[i].owed # Null =>
       /\ last.calls[i].ret = last.calls[i].owed
       /\ last.calls[i].geocodes = 0
       /\ last.calls[i].directions = 0

\* C8: neither the in-memory map nor the distance_cache table holds
\* different distances for (A,B) and (B,A), whatever calls, refreshes and
\* clears came before.
C8_OneEntryPerPair ==
  /\ \A key \in DOMAIN distanceCache :
        <<key[2], key[1]>> \in DOMAIN distanceCache
          => distanceCache[<<key[2], key[1]>>] = distanceCache[key]
  /\ \A r1 \in distance_cache : \A r2 \in distance_cache :
        (/\ r1.origin_address = r2.destination_address
         /\ r1.destination_address = r2.origin_address)
          => r1.distance_km = r2.distance_km

\* C9: calculateDistance(X, X') with X and X' equal after trimming and
\* lower-casing returns 0, makes no geocode and no directions call, with or
\* without skipCache, and records 0 for the pair in the in-memory map and in
\* the durable cache.
C9_SameAddressIsZero ==
  \A i \in 1..Len(last.calls) :
     Normalize(last.calls[i].origin) = Normalize(last.calls[i].destination) =>
       /\ last.calls[i].ret = Num(0)
       /\ last.calls[i].geocodes = 0
       /\ last.calls[i].directions = 0
       /\ last.calls[i].zeroInMemory
       /\ last.calls[i].zeroInTable

C9_Witness ==
  \E i \in 1..Len(last.calls) :
     /\ Normalize(last.calls[i].origin) = Normalize(last.calls[i].destination)
     /\ last.calls[i].origin # last.calls[i].destination
     /\ last.calls[i].skipCache
     /\ last.calls[i].ret = Num(0)

\* a run over the rows of one date group, all with a client address and
\* without stored kilometers, in which every lookup succeeds
RouteOfOneDay ==
  /\ IsLoad(last)
  /\ getHomeAddress(addresses) # ""
  /\ Len(last.input) >= 2
  /\ \A i \in 1..Len(last.input) :
        /\ ~HasStoredKilometers(last.input[i])
        /\ getClientAddress(addresses, ClientNameOf(last.input[i])) # ""
        /\ Get(last.input[i], "Lesson Date").k = "date"
        /\ Get(last.input[i], "Lesson Date") = Get(last.input[1], "Lesson Date")
  /\ \A i \in 1..Len(last.calls) : last.calls[i].ret # Null

StopAddress(i) == getClientAddress(addresses, ClientNameOf(last.input[i]))
LegOf(i) == <<last.calls[i].origin, last.calls[i].destination>>

\* the rows come back in row order; each outbound leg starts at the
\* previous stop in row order, and one return leg follows the last stop
LegsChain ==
  /\ Len(last.rows) = Len(last.input)
  /\ \A i \in 1..Len(last.input) : Get(last.rows[i], "_dbId") = Get(last.input[i], "_dbId")
  /\ Len(last.calls) = Len(last.input) + 1
  /\ LegOf(1) = <<getHomeAddress(addresses), StopAddress(1)>>
  /\ \A i \in 2..Len(last.input) : LegOf(i) = <<StopAddress(i - 1), StopAddress(i)>>
  /\ LegOf(Len(last.input) + 1) = <<StopAddress(Len(last.input)), getHomeAddress(addresses)>>

\* C10 as stated: kilometers(row) is the distance of the row's outbound
\* leg, and for the last row the sum of its outbound leg and the return leg.
C10_RouteKilometers ==
  RouteOfOneDay =>
    /\ LegsChain
    /\ \A i \in 1..(Len(last.rows) - 1) :
          Get(last.rows[i], "kilometers") = Num(last.calls[i].ret.v)
    /\ Get(last.rows[Len(last.rows)], "kilometers")
         = Num(last.calls[Len(last.rows)].ret.v + last.calls[Len(last.rows) + 1].ret.v)

\* C10 amended: kilometers(row) is the distance of the row's outbound leg
\* rounded to one decimal, and for the last row the sum of its outbound leg
\* and the return leg rounded to one decimal.
C10_RouteKilometersRounded ==
  RouteOfOneDay =>
    /\ LegsChain
    /\ \A i \in 1..(Len(last.rows) - 1) :
          Get(last.rows[i], "kilometers") = Num(round1(last.calls[i].ret.v))
    /\ Get(last.rows[Len(last.rows)], "kilometers")
         = Num(round1(last.calls[Len(last.rows)].ret.v
                      + last.calls[Len(last.rows) + 1].ret.v))

C10_Witness ==
  /\ RouteOfOneDay
  /\ LegsChain
  /\ Len(last.rows) = 2
  /\ StopAddress(1) # StopAddress(2)
  /\ round1(last.calls[1].ret.v) # last.calls[1].ret.v
  /\ last.calls[2].ret.v > 0
  /\ last.calls[3].ret.v > 0

(* ------------------------ claims on the day routes -------------------- *)
\* C11: calculateRoutesForInvoices never rejects, whatever rows it is
\* given: a leg that fails and a lesson date that is an unreadable text
\* only degrade their own row.
C11_RoutesNeverReject ==
  IsLoad(last) => ~last.rejected

(* --------------------- claims on the routing API client --------------- *)
SingleCaller == caller[2].pc = "absent"

\* C12: with a single sequential caller, every outbound call, the retry
\* attempts of fetchWithRetry included, starts at least API_DELAY_MS after
\* the previous outbound call started.
C12_SpacingSingleCaller ==
  SingleCaller => outbound.since >= API_DELAY_MS

\* C13: with two callers in flight at once, no two outbound calls are
\* issued less than API_DELAY_MS apart, in any interleaving of their awaits
\* (stated here for the runs in which no attempt had to be retried).
C13_SpacingConcurrent ==
  (~SingleCaller /\ ~outbound.retried) => outbound.since >= API_DELAY_MS

Over(s) == s.result.kind # "none"

Is429(r) == r.kind = "response" /\ r.status = 429

\* C14: a fetchWithRetry call makes at most 3 fetch attempts and comes to
\* an end; the first response that is not a 429 is returned without a
\* further attempt, and a 429 is returned only when the 3 attempts are used.
C14_AtMostThreeAttempts ==
  /\ [](\A c \in Callers :
          /\ caller[c].attempt < maxRetries
          /\ (caller[c].answer.kind = "response" /\ ~Is429(caller[c].answer))
               => caller[c].result = caller[c].answer
          /\ (Over(caller[c]) /\ Is429(caller[c].result))
               => caller[c].attempt + 1 = maxRetries)
  /\ \A c \in Callers : (caller[c].pc = "fetch") ~> Over(caller[c])

C14_Witness ==
  \E c \in Callers :
     /\ Over(caller[c])
     /\ Is429(caller[c].result)
     /\ Is429(caller[c].answer)
     /\ caller[c].attempt + 1 = maxRetries

\* C15: when the attempts are used up and the last one failed at network
\* level, fetchWithRetry throws that error, whatever came before.
C15_LastErrorPropagates ==
  \A c \in Callers :
     (Over(caller[c]) /\ caller[c].attempt + 1 = maxRetries /\ caller[c].answer.kind = "error")
       => caller[c].result.kind = "throw"

(* ----------------- claims on the uploads and the decisions ------------ *)
\* C16: after any sequence of uploads, replaces, merges and deletes, two
\* decisions resolved against the same existing file included, the store
\* holds at most one file per filename.
C16_OneFilePerFilename ==
  \A f \in db.files : \A g \in db.files : f.filename = g.filename => f.id = g.id

\* the results the response of POST /api/upload carries: none when the
\* handler has thrown (status 500)
ResponseResults(l) == IF l.ok THEN l.results ELSE <<>>

\* C17: in a multi-file upload a file that fails to parse affects only
\* itself: every other file of the batch gets its own result in the response.
C17_ParseFailureIsLocal ==
  IsUpload(last) =>
    \A i \in 1..Len(last.files) :
       parseExcelBuffer(last.files[i].b) # ParseError =>
         \E j \in 1..Len(ResponseResults(last)) :
            /\ ResponseResults(last)[j].name = last.files[i].name
            /\ ResponseResults(last)[j].b = last.files[i].b

\* C18: an upload whose content hash is not stored and whose filename is
\* that of a stored file leaves the store as it is and returns a pending
\* `diff` decision; cancelling a decision leaves the store as it is.
C18_DiffIsPending ==
  [][/\ (/\ IsUpload(last')
         /\ Len(last'.files) = 1
         /\ FilesByHash(db, computeFileHash(last'.files[1].b)) = {}
         /\ FilesByName(db, last'.files[1].name) # {})
          => (/\ db' = db
              /\ last'.ok
              /\ Len(last'.results) = 1
              /\ last'.results[1].status = "diff"
              /\ \E p \in pending' : /\ p.filename = last'.files[1].name
                                     /\ p.src = last'.files[1].b)
     /\ last'.op = "cancel" => db' = db]_vars

\* the attribute values stored under a row key in a file
AttributesUnder(d, fileId, key) ==
  {Attributes(r) : r \in {r \in RowsOf(d, fileId) : getRecordKey(Attributes(r)) = key}}

\* C19: a merge applies no modification: for every row key that the
\* existing file and the new data share, the rows stored under that key
\* after the merge carry exactly the attribute values the existing rows had.
C19_MergeKeepsExisting ==
  [][(last'.op = "merge" /\ last'.ok)
     => \A key \in StoredKeySet(db, last'.p.existingFileId)
                     \cap KeySet(deserializeData(last'.p.newData).records) :
           AttributesUnder(db', last'.newFileId, key)
             = AttributesUnder(db, last'.p.existingFileId, key)]_vars

(* --------------------------- claims on skipCache ---------------------- *)
\* C20: calculateDistance(A,B, skipCache) with A and B different after
\* normalization never answers from a cache, asks the provider when a key
\* is set, and on success leaves the fresh value in both tiers; a later
\* calculateDistance(A,B) without skipCache returns the provider's latest
\* value for (A,B) and makes no provider call.
C20_SkipCacheRefreshes ==
  \A i \in 1..Len(last.calls) :
     LET call == last.calls[i]
     IN /\ (call.skipCache /\ ~SameAddress(call.origin, call.destination))
            => /\ call.tier = "provider"
               /\ apiKey => call.geocodes >= 1
               /\ call.ret # Null => /\ call.directions = 1
                                     /\ call.memory = call.ret
                                     /\ call.stored = {call.ret.v}
        /\ (~call.skipCache /\ call.fresh # Null)
            => /\ call.ret = call.fresh
               /\ call.geocodes = 0
               /\ call.directions = 0

(* ------------------- claims on the tiers and the routes --------------- *)
\* C21: calculateDistance without skipCache consults the in-memory map
\* (both key orders), then the durable cache, then the provider: the
\* provider is called only when both caches miss, and a durable hit is
\* copied into the in-memory map so that the next identical request is
\* answered from memory.
C21_TierOrder ==
  \A i \in 1..Len(last.calls) :
     LET call == last.calls[i]
     IN (~call.skipCache /\ ~SameAddress(call.origin, call.destination))
          => /\ call.tier = "memory" <=> call.memoryHit
             /\ call.tier = "durable" <=> (~call.memoryHit /\ call.durableHit)
             /\ call.tier = "provider" <=> (~call.memoryHit /\ ~call.durableHit)
             /\ call.tier # "provider" => (call.geocodes = 0 /\ call.directions = 0)
             /\ call.tier = "durable" => (call.memory = call.ret /\ call.answers)

RowsWithId(rows, id) == {j \in 1..Len(rows) : Get(rows[j], "_dbId") = id}

\* C22: a row of the input whose kilometers is greater than 0 is
\* returned once with exactly that value, no distance is requested for it
\* and it is not written back, also after the distance caches were cleared.
C22_StoredKilometersKept ==
  IsLoad(last) =>
    \A i \in 1..Len(last.input) :
       HasStoredKilometers(last.input[i]) =>
         LET id == Get(last.input[i], "_dbId")
         IN /\ Cardinality(RowsWithId(last.rows, id)) = 1
            /\ \A j \in RowsWithId(last.rows, id) :
                  Get(last.rows[j], "kilometers") = Get(last.input[i], "kilometers")
            /\ \A k \in 1..Len(last.calls) : last.calls[k].row # id
            /\ \A k \in 1..Len(last.writes) : last.writes[k].recordId # id.v

\* the rows of the input that share the date group of row i, and those of
\* them whose client has a configured address
GroupOf(i) ==
  {j \in 1..Len(last.input) :
     /\ InvoiceDateKey(last.input[j]).kind = "key"
     /\ InvoiceDateKey(last.input[j]) = InvoiceDateKey(last.input[i])}
AddressedOf(i) ==
  {j \in GroupOf(i) : getClientAddress(addresses, ClientNameOf(last.input[j])) # ""}
CallsOf(id, leg) ==
  {k \in 1..Len(last.calls) : last.calls[k].row = id /\ last.calls[k].leg = leg}

\* C23: in each date group the return leg distance(clientAddress, home) is
\* added to the kilometers of the last row of the group that has a
\* configured client address and to no earlier row, whichever rows of the
\* group already hold persisted kilometers.
C23_ReturnLegOnLastRow ==
  IsLoad(last) =>
    \A i \in 1..Len(last.input) :
       CallsOf(Get(last.input[i], "_dbId"), "back") # {} =>
         /\ i \in AddressedOf(i)
         /\ \A j \in AddressedOf(i) : j <= i
         /\ \A k \in CallsOf(Get(last.input[i], "_dbId"), "back") :
               /\ last.calls[k].origin = getClientAddress(addresses, ClientNameOf(last.input[i]))
               /\ last.calls[k].destination = getHomeAddress(addresses)

RowId(i) == Get(last.input[i], "_dbId")
AddressOf(i) == getClientAddress(addresses, ClientNameOf(last.input[i]))
MaxOf(S) == CHOOSE x \in S : \A y \in S : y <= x

\* the earlier rows of row i's group that this run routed, and those of
\* them whose outbound lookup gave a distance
RoutedBefore(i) == {j \in GroupOf(i) : j < i /\ CallsOf(RowId(j), "out") # {}}
RoutedWellBefore(i) ==
  {j \in RoutedBefore(i) : \A k \in CallsOf(RowId(j), "out") : last.calls[k].ret # Null}

\* C24 as stated: the origin of a row's outbound leg is the address of the
\* most recent earlier row of the group whose leg was routed successfully,
\* or home if there is none; a row whose lookup failed does not advance
\* the previous stop.
C24_PreviousStopAfterSuccess ==
  IsLoad(last) =>
    \A i \in 1..Len(last.input) : \A k \in CallsOf(RowId(i), "out") :
       last.calls[k].origin = IF RoutedWellBefore(i) = {} THEN getHomeAddress(addresses)
                              ELSE AddressOf(MaxOf(RoutedWellBefore(i)))

\* C24 amended: the origin of a row's outbound leg is the address of the
\* most recent earlier row of the group that this run routed (a row with a
\* configured address and no stored kilometers), whether its lookup gave a
\* distance or failed, or home if there is none; rows without address and
\* rows with stored kilometers do not advance the previous stop.
C24_PreviousStopAfterEachStop ==
  IsLoad(last) =>
    /\ \A i \in 1..Len(last.input) : \A k \in CallsOf(RowId(i), "out") :
          last.calls[k].origin = IF RoutedBefore(i) = {} THEN getHomeAddress(addresses)
                                 ELSE AddressOf(MaxOf(RoutedBefore(i)))
    /\ \A i \in 1..Len(last.input) :
          CallsOf(RowId(i), "out") # {}
            <=> /\ ~last.rejected
                /\ InvoiceDateKey(last.input[i]).kind = "key"
                /\ AddressOf(i) # ""
                /\ ~HasStoredKilometers(last.input[i])

\* a row is measured from the stop before it although the lookup of that
\* stop failed
C24_Witness ==
  /\ IsLoad(last)
  /\ \E i \in 1..Len(last.input) : \E k \in CallsOf(RowId(i), "out") :
        /\ RoutedBefore(i) # {}
        /\ MaxOf(RoutedBefore(i)) \notin RoutedWellBefore(i)
        /\ last.calls[k].origin = AddressOf(MaxOf(RoutedBefore(i)))
        /\ last.calls[k].origin # getHomeAddress(addresses)
        /\ last.calls[k].ret # Null

\* C25: calculateRoutesForInvoices returns every input row exactly once:
\* a row whose lesson date is missing is in no date group and comes back
\* with kilometers 0 or its stored value, so the output has as many rows as
\* the input.
C25_EveryRowReturned ==
  (IsLoad(last) /\ Len(last.input) > 0) =>
    /\ Len(last.rows) = Len(last.input)
    /\ \A i \in 1..Len(last.input) :
          /\ Cardinality(RowsWithId(last.rows, RowId(i))) = 1
          /\ InvoiceDateKey(last.input[i]).kind = "skip" =>
               \A j \in RowsWithId(last.rows, RowId(i)) :
                  Get(last.rows[j], "kilometers")
                    = IF HasStoredKilometers(last.input[i])
                      THEN Get(last.input[i], "kilometers") ELSE Num(0)

WritesOf(l, id) == {k \in 1..Len(l.writes) : Num(l.writes[k].recordId) = id}
Routed(i) == CallsOf(RowId(i), "out") # {}
KilometersOf(i) == Get(last.rows[MaxOf(RowsWithId(last.rows, RowId(i)))], "kilometers").v

\* what a run has posted, against what it has computed
WrittenWhenPositive ==
  (IsLoad(last) /\ ~last.rejected) =>
    /\ \A k \in 1..Len(last.writes) :
          /\ last.writes[k].kilometers > 0
          /\ \E i \in 1..Len(last.input) : Routed(i) /\ RowId(i) = Num(last.writes[k].recordId)
    /\ \A i \in 1..Len(last.input) :
          Routed(i) =>
            /\ Cardinality(WritesOf(last, RowId(i))) = IF KilometersOf(i) > 0 THEN 1 ELSE 0
            /\ \A k \in WritesOf(last, RowId(i)) : last.writes[k].kilometers = KilometersOf(i)

\* what a run changes in the kilometers column
OnlyWritesChangeKilometers ==
  IsLoad(last') =>
    \A r \in db.records : \A r2 \in db'.records :
       r2.id = r.id =>
         r2.kilometers = IF WritesOf(last', Num(r.id)) = {} THEN r.kilometers
                         ELSE Num(last'.writes[MaxOf(WritesOf(last', Num(r.id)))].kilometers)

\* C26: calculateRoutesForInvoices writes a row's freshly computed
\* kilometers to the store exactly when the row has a persisted identifier
\* and the value is greater than 0; it never writes a 0, and a computation
\* that failed leaves the stored value as it was.
C26_WriteBackRule == []WrittenWhenPositive /\ [][OnlyWritesChangeKilometers]_vars

\* a run that wrote one row's kilometers and left alone a row that came to 0
C26_Witness ==
  /\ IsLoad(last)
  /\ ~last.rejected
  /\ \E i \in 1..Len(last.input) : \E j \in 1..Len(last.input) :
        /\ Routed(i) /\ KilometersOf(i) > 0
        /\ RowById(db, RowId(i).v).kilometers = Num(KilometersOf(i))
        /\ Routed(j) /\ KilometersOf(j) = 0
        /\ RowById(db, RowId(j).v).kilometers = Null

\* C27: handleRefreshDistance on a row with home and client address set
\* requests home to client and client to home, both with skipCache, sets
\* the row's kilometers to their sum rounded to one decimal whatever was
\* stored before, and persists that value for a row that has a persisted
\* identifier.
C27_RefreshOverrides ==
  last.op = "refresh" =>
    LET invoice == last.input[1]
        homeAddress == getHomeAddress(addresses)
        clientAddress == getClientAddress(addresses, ClientNameOf(invoice))
        id == Get(invoice, "_dbId")
        kilometers == round1(Metres(last.calls[1].ret) + Metres(last.calls[2].ret))
    IN /\ Len(last.calls) = 2
       /\ last.calls[1].skipCache /\ last.calls[2].skipCache
       /\ <<last.calls[1].origin, last.calls[1].destination>> = <<homeAddress, clientAddress>>
       /\ <<last.calls[2].origin, last.calls[2].destination>> = <<clientAddress, homeAddress>>
       /\ \A j \in RowsWithId(last.rows, id) : Get(last.rows[j], "kilometers") = Num(kilometers)
       /\ Truthy(id) => RowById(db, id.v).kilometers = Num(kilometers)

\* a run that returned every row of its input with positive kilometers
AllRowsPositive(l) ==
  /\ IsLoad(l)
  /\ ~l.rejected
  /\ Len(l.input) > 0
  /\ \A i \in 1..Len(l.input) :
        /\ Truthy(Get(l.input[i], "_dbId"))
        /\ \E j \in 1..Len(l.rows) :
              /\ Get(l.rows[j], "_dbId") = Get(l.input[i], "_dbId")
              /\ Get(l.rows[j], "kilometers").v > 0

\* the second run returns the rows of the first with their kilometers
SameKilometers(l1, l2) ==
  /\ Len(l2.rows) = Len(l1.rows)
  /\ \A j \in 1..Len(l1.rows) : \E k \in 1..Len(l2.rows) :
        /\ Get(l2.rows[k], "_dbId") = Get(l1.rows[j], "_dbId")
        /\ Get(l2.rows[k], "kilometers") = Get(l1.rows[j], "kilometers")

\* C30: after a run in which every row of the input has a persisted
\* identifier and received positive kilometers, a run on the rows reloaded
\* from the store returns the same kilometers for every row and makes no
\* cache request, no provider call and no write-back.
C30_RouteIdempotent ==
  [][(AllRowsPositive(last) /\ last'.op = "open")
       => /\ ~last'.rejected
          /\ SameKilometers(last, last')
          /\ last'.calls = <<>>
          /\ last'.writes = <<>>
          /\ db' = db]_vars

\* the reloaded rows all hold the kilometers a run had computed and
\* stored, and the run on them asked for nothing
C30_Witness ==
  /\ last.op = "open"
  /\ AllRowsPositive(last)
  /\ Len(last.input) >= 2
  /\ \A i \in 1..Len(last.input) :
        /\ HasStoredKilometers(last.input[i])
        /\ RowById(db, RowId(i).v).kilometers = Get(last.input[i], "kilometers")
  /\ last.calls = <<>>
  /\ distance_cache # {}

(* ------------------- claims on the kilometers column ------------------ *)
IdsOf(d) == {r.id : r \in d.records}

\* an id that was issued before the step names the same row after it
IdsNeverReused ==
  /\ db'.nextRecId >= db.nextRecId
  /\ \A r \in db.records : r.id < db.nextRecId
  /\ \A r2 \in db'.records :
        r2.id < db.nextRecId =>
          \E r \in db.records :
             r.id = r2.id /\ r.file_id = r2.file_id /\ r.record_data = r2.record_data

\* C28: a kilometers write-back that holds the _dbId of a row whose file
\* was replaced, merged or deleted since changes no row of the store: row
\* identifiers are never reused, so it cannot land on another row.
C28_LateWriteBack ==
  [][/\ IdsNeverReused
     /\ (last'.op = "kilometers" /\ last'.recordId \notin IdsOf(db)) => db' = db]_vars

\* a post for a row that is gone reaches a store that holds other rows
C28_Witness ==
  /\ last.op = "kilometers"
  /\ last.recordId \notin IdsOf(db)
  /\ last.recordId < db.nextRecId
  /\ db.records # {}
  /\ \E r \in db.records : r.kilometers # Null

\* C29: every row of the existing file that had positive kilometers before
\* a merge is read back from the new file (getFileRecords on the new file
\* id) with the same kilometers and the same cells.
C29_MergeKeepsKilometers ==
  [][(last'.op = "merge" /\ last'.ok) =>
        LET before == getFileRecords(db, last'.p.existingFileId)
            after == getFileRecords(db', last'.newFileId)
        IN /\ Len(after) >= Len(before)
           /\ \A i \in 1..Len(before) :
                 HasStoredKilometers(before[i]) =>
                   /\ Get(after[i], "kilometers") = Get(before[i], "kilometers")
                   /\ \A key \in SeqRange(Headers) : Get(after[i], key) = Get(before[i], key)
                   /\ Get(after[i], "_dbId") # Get(before[i], "_dbId")]_vars

\* a merge has re-inserted a row that held kilometers, under a new id, and
\* added a row
C29_Witness ==
  /\ last.op = "merge"
  /\ last.ok
  /\ \E i \in 1..Len(getFileRecords(db, last.newFileId)) :
        /\ HasStoredKilometers(getFileRecords(db, last.newFileId)[i])
        /\ RowById(db, Get(getFileRecords(db, last.newFileId)[i], "_dbId").v).kilometers = Null
  /\ Len(getFileRecords(db, last.newFileId)) >= 3

====
